---- MODULE Spec2Model ----
(***************************************************************************)
(* Model of skiing_in_singapore.py: the loader (SkiMap.load), the          *)
(* grid-to-graph builder (SkiMap.build_nodes), the incremental             *)
(* longest-path tracker (SkiMap._go_down), the summit query                *)
(* (SkiMap.longest_paths) and the driver find_longest_path with its        *)
(* vertical-drop walk.                                                     *)
(*                                                                         *)
(* Node objects are referred to by their index (Node.i); a Python list of  *)
(* Node references is a sequence of indices.  Python's 0-based rows[y][x]  *)
(* is rows[y + 1][x + 1] here.                                             *)
(***************************************************************************)
EXTENDS Integers, Sequences, FiniteSets, TLC

\* ------------------------------------------------------------------ bounds
MaxW == 3
MaxH == 2
MaxElev == 4
\* bounds of the tracker driven edge by edge (SpecFree)
MaxNodes == 5
MaxEdges == 4
\* bounds of the grid whose edges are submitted in any order (SpecOrder)
MaxOrderCells == 4
\* bounds of the map file that is loaded (SpecLoad)
MaxFileW == 2
MaxFileH == 2
MaxFileElev == 3

\* ----------------------------------------------------------------- helpers
\* Python's None for an integer-valued local (no integer the program computes)
None == -100

\* builtin max(a, b)
Max(a, b) == IF a >= b THEN a ELSE b

\* The result of iterating a set into a list: the order of a Python set is
\* not specified, so every enumeration of S is a possible result.
Perms(S) ==
  {s \in [1..Cardinality(S) -> S] : \A a, b \in 1..Cardinality(S) : a # b => s[a] # s[b]}

\* the elements of a list
Range(s) == {s[k] : k \in 1..Len(s)}

\* [v] * n
Repeat(v, n) == [k \in 1..n |-> v]

\* --------------------------------------------------------------- the state
VARIABLES
  header, file, r,              \* map.txt: its header, its further lines; loop variable of load
  width, height, rows,          \* SkiMap.width, .height, .rows
  nodes,                        \* SkiMap.nodes: index -> Node (NoNode where the list holds None)
  summits,                      \* SkiMap.summits
  pc, ret,                      \* position in the program; where _go_down returns to
  x, y, i, prev_row, prev_row_nodes, row_nodes,              \* locals of build_nodes
  upper_node, down_node, new_longest_path, top_nodes,
  next_nodes, level, node_pos,                                \* locals of _go_down
  path_len, paths, error,                                     \* longest_paths: argument, result, exception
  max_path_len, max_vertical_drop, path_pos, min_elevation,
  prev_level_nodes, flp_level, other_pos, result              \* locals of find_longest_path

bn_vars == <<x, y, i, prev_row, prev_row_nodes, row_nodes>>
gd_vars == <<upper_node, down_node, new_longest_path, top_nodes, next_nodes, level, node_pos>>
lp_vars == <<path_len, paths, error>>
flp_vars == <<max_path_len, max_vertical_drop, path_pos, min_elevation,
              prev_level_nodes, flp_level, other_pos, result>>
map_vars == <<width, height, rows>>
load_vars == <<header, file, r>>
vars == <<load_vars, map_vars, nodes, summits, pc, ret, bn_vars, gd_vars, lp_vars, flp_vars>>

\* ------------------------------------------------------------------- Node
\* Node.__init__
Node(index, nx, ny, elevation) ==
  [i |-> index, x |-> nx, y |-> ny, elevation |-> elevation,
   go_down |-> <<>>, go_up |-> <<>>, longest_path |-> 0]

\* a slot of SkiMap.nodes that still holds None
NoNode == [i |-> None, x |-> None, y |-> None, elevation |-> None,
           go_down |-> <<>>, go_up |-> <<>>, longest_path |-> 0]

\* the locals of a frame that is not active
NoBuildLocals ==
  /\ x = None /\ y = None /\ i = None
  /\ prev_row = <<>> /\ prev_row_nodes = <<>> /\ row_nodes = <<>>

NoGoDownLocals ==
  /\ upper_node = None /\ down_node = None /\ new_longest_path = None
  /\ top_nodes = <<>> /\ next_nodes = <<>> /\ level = None /\ node_pos = None

\* no file is being read: the map was handed over ready
NoFile == header = <<>> /\ file = <<>> /\ r = None

NoQueryLocals ==
  /\ path_len = None /\ paths = <<>> /\ error = "none"

NoFlpLocals ==
  /\ max_path_len = None /\ max_vertical_drop = None /\ path_pos = None
  /\ min_elevation = None /\ prev_level_nodes = {} /\ flp_level = None
  /\ other_pos = None /\ result = <<>>

\* the grids SkiMap.load accepts: height rows of width integers each
Grids(w, h) == [1..h -> [1..w -> 1..MaxElev]]

\* ------------------------------------------------------- SkiMap._go_down
\* line 88 without the test: upper_node.longest_path is always overwritten
LengthensAlways(down_lp, upper_lp) == TRUE

\* line 88: does the new edge lengthen the longest path of upper_node?
Lengthens(down_lp, upper_lp) == down_lp + 1 > upper_lp

\* line 95 without the max: the proposed value overwrites a larger one
PropagatedNoMax(old_lp, new_lp, lvl) == new_lp + lvl

\* line 95 without the level: every ancestor gets the value of upper_node
PropagatedNoLevel(old_lp, new_lp, lvl) == Max(old_lp, new_lp)

\* line 95: the value an ancestor at propagation level lvl gets
Propagated(old_lp, new_lp, lvl) == Max(old_lp, new_lp + lvl)

\* line 96 assigning instead of extending: only the go_up of the last node
\* of a level is followed
ExtendedReplace(next, node_go_up) == node_go_up

\* line 96: next_nodes.extend(node.go_up)
Extended(next, node_go_up) == next \o node_go_up

\* lines 100-106 without the removal of down_node
SummitsAfterKeep(s, ns, upper, down) ==
  IF Len(ns[upper].go_down) = 1 /\ ns[upper].go_up = <<>>
  THEN s \cup {upper} ELSE s

\* lines 100-106 without "and not upper_node.go_up" on line 105
SummitsAfterNoUpTest(s, ns, upper, down) ==
  LET s1 == IF Len(ns[down].go_down) > 0 THEN s \ {down} ELSE s
  IN IF Len(ns[upper].go_down) = 1 THEN s1 \cup {upper} ELSE s1

\* lines 100-106 with upper_node for down_node on lines 100 and 102
SummitsAfterSwapped(s, ns, upper, down) ==
  LET s1 == IF Len(ns[upper].go_down) > 0 THEN s \ {upper} ELSE s
  IN IF Len(ns[upper].go_down) = 1 /\ ns[upper].go_up = <<>>
     THEN s1 \cup {upper} ELSE s1

\* lines 100-106: the summit set after the edge upper -> down has been
\* appended (ns is the node table with the edge in it)
SummitsAfter(s, ns, upper, down) ==
  LET s1 == IF Len(ns[down].go_down) > 0 THEN s \ {down} ELSE s
  IN IF Len(ns[upper].go_down) = 1 /\ ns[upper].go_up = <<>>
     THEN s1 \cup {upper} ELSE s1

\* lines 85-91 with go_down for go_up on line 90: the propagation starts
\* below upper_node
GoDownAppendDownward ==
  /\ pc = "go_down"
  /\ LET n1 == [nodes EXCEPT ![upper_node].go_down = Append(@, down_node),
                             ![down_node].go_up = Append(@, upper_node)]
     IN IF Lengthens(n1[down_node].longest_path, n1[upper_node].longest_path)
        THEN /\ nodes' = [n1 EXCEPT ![upper_node].longest_path = n1[down_node].longest_path + 1]
             /\ new_longest_path' = n1[down_node].longest_path + 1
             /\ top_nodes' = n1[upper_node].go_down
             /\ level' = 1
             /\ pc' = "gd_while"
        ELSE /\ nodes' = n1
             /\ pc' = "gd_summits"
             /\ UNCHANGED <<new_longest_path, top_nodes, level>>
  /\ UNCHANGED <<load_vars, map_vars, summits, ret, bn_vars, upper_node, down_node,
                 next_nodes, node_pos, lp_vars, flp_vars>>

\* lines 85-91: append the edge, raise upper_node.longest_path if needed and
\* start the propagation at upper_node.go_up
GoDownAppend ==
  /\ pc = "go_down"
  /\ LET n1 == [nodes EXCEPT ![upper_node].go_down = Append(@, down_node),
                             ![down_node].go_up = Append(@, upper_node)]
     IN IF Lengthens(n1[down_node].longest_path, n1[upper_node].longest_path)
        THEN /\ nodes' = [n1 EXCEPT ![upper_node].longest_path = n1[down_node].longest_path + 1]
             /\ new_longest_path' = n1[down_node].longest_path + 1
             /\ top_nodes' = n1[upper_node].go_up
             /\ level' = 1
             /\ pc' = "gd_while"
        ELSE /\ nodes' = n1
             /\ pc' = "gd_summits"
             /\ UNCHANGED <<new_longest_path, top_nodes, level>>
  /\ UNCHANGED <<load_vars, map_vars, summits, ret, bn_vars, upper_node, down_node,
                 next_nodes, node_pos, lp_vars, flp_vars>>

\* lines 92-93: the test of the while loop and the start of one level
GoDownWhile ==
  /\ pc = "gd_while"
  /\ IF top_nodes # <<>>
     THEN /\ next_nodes' = <<>>
          /\ node_pos' = 1
          /\ pc' = "gd_for"
     ELSE /\ pc' = "gd_summits"
          /\ UNCHANGED <<next_nodes, node_pos>>
  /\ UNCHANGED <<load_vars, map_vars, nodes, summits, ret, bn_vars, upper_node, down_node,
                 new_longest_path, top_nodes, level, lp_vars, flp_vars>>

\* lines 94-98 with lines 97-98 left out of the while loop: the same level
\* is walked again and again
GoDownForSameLevel ==
  /\ pc = "gd_for"
  /\ IF node_pos <= Len(top_nodes)
     THEN LET node == top_nodes[node_pos]
          IN /\ nodes' = [nodes EXCEPT ![node].longest_path =
                            Propagated(@, new_longest_path, level)]
             /\ next_nodes' = Extended(next_nodes, nodes[node].go_up)
             /\ node_pos' = node_pos + 1
             /\ UNCHANGED <<top_nodes, level, pc>>
     ELSE /\ pc' = "gd_while"
          /\ UNCHANGED <<nodes, top_nodes, level, next_nodes, node_pos>>
  /\ UNCHANGED <<load_vars, map_vars, summits, ret, bn_vars, upper_node, down_node,
                 new_longest_path, lp_vars, flp_vars>>

\* lines 94-98: one iteration of the for loop over top_nodes, or, when the
\* level is exhausted, the step to the next level
GoDownFor ==
  /\ pc = "gd_for"
  /\ IF node_pos <= Len(top_nodes)
     THEN LET node == top_nodes[node_pos]
          IN /\ nodes' = [nodes EXCEPT ![node].longest_path =
                            Propagated(@, new_longest_path, level)]
             /\ next_nodes' = Extended(next_nodes, nodes[node].go_up)
             /\ node_pos' = node_pos + 1
             /\ UNCHANGED <<top_nodes, level, pc>>
     ELSE /\ top_nodes' = next_nodes
          /\ level' = level + 1
          /\ pc' = "gd_while"
          /\ UNCHANGED <<nodes, next_nodes, node_pos>>
  /\ UNCHANGED <<load_vars, map_vars, summits, ret, bn_vars, upper_node, down_node,
                 new_longest_path, lp_vars, flp_vars>>

\* lines 100-106: summit bookkeeping, then return to the caller
GoDownSummits ==
  /\ pc = "gd_summits"
  /\ summits' = SummitsAfter(summits, nodes, upper_node, down_node)
  /\ pc' = ret
  /\ ret' = "none"
  /\ upper_node' = None /\ down_node' = None /\ new_longest_path' = None
  /\ top_nodes' = <<>> /\ next_nodes' = <<>> /\ level' = None /\ node_pos' = None
  /\ UNCHANGED <<load_vars, map_vars, nodes, bn_vars, lp_vars, flp_vars>>

\* the call go_down(upper, down) made at position pc, returning to back
Call_go_down(upper, down, back) ==
  /\ upper_node' = upper
  /\ down_node' = down
  /\ ret' = back
  /\ pc' = "go_down"
  /\ UNCHANGED <<new_longest_path, top_nodes, next_nodes, level, node_pos>>

\* --------------------------------------------------- SkiMap.longest_paths
\* line 75: max() of an empty set raises ValueError
LongestPathsRaises(pl) == pl = None /\ summits = {}

\* lines 74-76 with the comparison of max() reversed
TargetLenMin(pl) ==
  IF pl = None
  THEN LET top == CHOOSE s \in summits :
                    \A t \in summits : nodes[s].longest_path <= nodes[t].longest_path
       IN nodes[top].longest_path
  ELSE pl

\* lines 74-76: the length that is looked for
TargetLen(pl) ==
  IF pl = None
  THEN LET top == CHOOSE s \in summits :
                    \A t \in summits : nodes[s].longest_path >= nodes[t].longest_path
       IN nodes[top].longest_path
  ELSE pl

\* line 78 with >= in the filter
LongestPathsAtLeast(pl) == {s \in summits : nodes[s].longest_path >= TargetLen(pl)}

\* line 78: the summits that the filter keeps
LongestPaths(pl) == {s \in summits : nodes[s].longest_path = TargetLen(pl)}

\* ----------------------------------------------------- SkiMap.build_nodes
\* lines 37-39
BuildStart ==
  /\ pc = "build_nodes"
  /\ nodes' = [k \in 0..(width * height - 1) |-> NoNode]
  /\ prev_row' = <<>> /\ prev_row_nodes' = <<>>
  /\ i' = 0
  /\ y' = 0
  /\ pc' = "bn_row"
  /\ UNCHANGED <<load_vars, map_vars, summits, ret, x, row_nodes, gd_vars, lp_vars, flp_vars>>

\* lines 41-43: the head of the loop over rows; after the last row
\* build_nodes returns to find_longest_path
BuildRow ==
  /\ pc = "bn_row"
  /\ IF y < height
     THEN /\ row_nodes' = Repeat(None, width)
          /\ x' = 0
          /\ pc' = "bn_cell"
          /\ UNCHANGED <<y, i, prev_row, prev_row_nodes>>
     ELSE /\ pc' = "flp_paths"
          /\ x' = None /\ y' = None /\ i' = None
          /\ prev_row' = <<>> /\ prev_row_nodes' = <<>> /\ row_nodes' = <<>>
  /\ UNCHANGED <<load_vars, map_vars, nodes, summits, ret, gd_vars, lp_vars, flp_vars>>

\* lines 46-49: the head of the loop over cells creates the node of the
\* cell; lines 66-67 after the last cell of the row
BuildCell ==
  /\ pc = "bn_cell"
  /\ IF x < width
     THEN /\ nodes' = [nodes EXCEPT ![i] = Node(i, x, y, rows[y + 1][x + 1])]
          /\ row_nodes' = [row_nodes EXCEPT ![x + 1] = i]
          /\ pc' = "bn_left"
          /\ UNCHANGED <<y, prev_row, prev_row_nodes>>
     ELSE /\ prev_row' = rows[y + 1]
          /\ prev_row_nodes' = row_nodes
          /\ y' = y + 1
          /\ pc' = "bn_row"
          /\ UNCHANGED <<nodes, row_nodes>>
  /\ UNCHANGED <<load_vars, map_vars, summits, ret, x, i, gd_vars, lp_vars, flp_vars>>

\* lines 51-55 without the test for equal elevations on line 51
BuildLeftNoEqualTest ==
  /\ pc = "bn_left"
  /\ LET row == rows[y + 1]
         elevation == row[x + 1]
     IN IF x > 0
        THEN IF row[x] < elevation
             THEN Call_go_down(i, row_nodes[x], "bn_up")
             ELSE Call_go_down(row_nodes[x], i, "bn_up")
        ELSE /\ pc' = "bn_up"
             /\ UNCHANGED <<ret, gd_vars>>
  /\ UNCHANGED <<load_vars, map_vars, nodes, summits, bn_vars, lp_vars, flp_vars>>

\* lines 51-55: the edge between the cell and its left neighbour
BuildLeft ==
  /\ pc = "bn_left"
  /\ LET row == rows[y + 1]
         elevation == row[x + 1]
     IN IF x > 0 /\ row[x] # elevation
        THEN IF row[x] < elevation
             THEN Call_go_down(i, row_nodes[x], "bn_up")
             ELSE Call_go_down(row_nodes[x], i, "bn_up")
        ELSE /\ pc' = "bn_up"
             /\ UNCHANGED <<ret, gd_vars>>
  /\ UNCHANGED <<load_vars, map_vars, nodes, summits, bn_vars, lp_vars, flp_vars>>

\* lines 57-61: the edge between the cell and the cell above it
BuildUp ==
  /\ pc = "bn_up"
  /\ LET elevation == rows[y + 1][x + 1]
     IN IF prev_row # <<>> /\ prev_row[x + 1] # elevation
        THEN IF prev_row[x + 1] < elevation
             THEN Call_go_down(i, prev_row_nodes[x + 1], "bn_next")
             ELSE Call_go_down(prev_row_nodes[x + 1], i, "bn_next")
        ELSE /\ pc' = "bn_next"
             /\ UNCHANGED <<ret, gd_vars>>
  /\ UNCHANGED <<load_vars, map_vars, nodes, summits, bn_vars, lp_vars, flp_vars>>

\* line 63 and the step of the loop over cells
BuildNext ==
  /\ pc = "bn_next"
  /\ i' = i + 1
  /\ x' = x + 1
  /\ pc' = "bn_cell"
  /\ UNCHANGED <<load_vars, map_vars, nodes, summits, ret, y, prev_row, prev_row_nodes,
                 row_nodes, gd_vars, lp_vars, flp_vars>>

\* ------------------------------------------------------ find_longest_path
\* builtin min over a non-empty set of integers
SetMin(S) == CHOOSE m \in S : \A n \in S : m <= n

\* line 146: the set of all go_down entries of the previous level
LevelNodes(prev) == UNION {Range(nodes[n].go_down) : n \in prev}

\* line 150 without the test: every node of the level is kept
CriticalAll(level_nodes, len, lvl) == level_nodes

\* line 150 with <= in the test: nodes of shorter branches are kept too
CriticalAtMost(level_nodes, len, lvl) ==
  {n \in level_nodes : nodes[n].longest_path <= len - lvl}

\* line 150: the nodes of a level that lie on a path of the full length
Critical(level_nodes, len, lvl) ==
  {n \in level_nodes : nodes[n].longest_path = len - lvl}

\* lines 151-153: the running minimum after the kept nodes of a level
MinAfter(m, kept) == SetMin({m} \cup {nodes[n].elevation : n \in kept})

\* line 133
FlpStart ==
  /\ pc = "find_longest_path"
  /\ pc' = "build_nodes"
  /\ UNCHANGED <<load_vars, map_vars, nodes, summits, ret, bn_vars, gd_vars, lp_vars, flp_vars>>

\* lines 136-138: paths = skimap.longest_paths(); the ValueError of max() and
\* the IndexError of paths[0] leave find_longest_path
FlpPaths ==
  /\ pc = "flp_paths"
  /\ IF LongestPathsRaises(None)
     THEN /\ error' = "ValueError"
          /\ pc' = "raised"
          /\ UNCHANGED <<paths, max_path_len, max_vertical_drop, path_pos>>
     ELSE \E ps \in Perms(LongestPaths(None)) :
            /\ paths' = ps
            /\ IF ps = <<>>
               THEN /\ error' = "IndexError"
                    /\ pc' = "raised"
                    /\ UNCHANGED <<max_path_len, max_vertical_drop, path_pos>>
               ELSE /\ max_path_len' = nodes[ps[1]].longest_path
                    /\ max_vertical_drop' = 0
                    /\ path_pos' = 1
                    /\ pc' = "flp_for"
                    /\ UNCHANGED error
  /\ UNCHANGED <<load_vars, map_vars, nodes, summits, ret, bn_vars, gd_vars, path_len,
                 min_elevation, prev_level_nodes, flp_level, other_pos, result>>

\* lines 141-144: the head of the loop over paths
FlpFor ==
  /\ pc = "flp_for"
  /\ IF path_pos <= Len(paths)
     THEN /\ min_elevation' = nodes[paths[path_pos]].elevation
          /\ prev_level_nodes' = {paths[path_pos]}
          /\ flp_level' = 1
          /\ pc' = "flp_level"
          /\ UNCHANGED <<path_pos, other_pos>>
     ELSE /\ other_pos' = max_path_len - 1
          /\ path_pos' = None
          /\ pc' = "flp_other"
          /\ UNCHANGED <<min_elevation, prev_level_nodes, flp_level>>
  /\ UNCHANGED <<load_vars, map_vars, nodes, summits, ret, bn_vars, gd_vars, lp_vars,
                 max_path_len, max_vertical_drop, result>>

\* lines 145-156: one level of the walk down from paths[path_pos];
\* lines 158-161 after the last level.  prev_level_nodes is a list without
\* repetitions that is only ever read as a whole, so it is kept as a set.
FlpLevel ==
  /\ pc = "flp_level"
  /\ IF flp_level <= max_path_len
     THEN LET kept == Critical(LevelNodes(prev_level_nodes), max_path_len, flp_level)
          IN /\ min_elevation' = MinAfter(min_elevation, kept)
             /\ prev_level_nodes' = kept
             /\ flp_level' = flp_level + 1
             /\ UNCHANGED <<pc, path_pos, max_vertical_drop>>
     ELSE LET vertical_drop == nodes[paths[path_pos]].elevation - min_elevation
          IN /\ max_vertical_drop' = Max(max_vertical_drop, vertical_drop)
             /\ path_pos' = path_pos + 1
             /\ min_elevation' = None
             /\ prev_level_nodes' = {}
             /\ flp_level' = None
             /\ pc' = "flp_for"
  /\ UNCHANGED <<load_vars, map_vars, nodes, summits, ret, bn_vars, gd_vars, lp_vars,
                 max_path_len, other_pos, result>>

\* lines 164-168: the three further queries longest_paths(path_len=...),
\* whose results are only counted, then the return
FlpOther ==
  /\ pc = "flp_other"
  /\ IF other_pos > max_path_len - 4
     THEN IF LongestPathsRaises(other_pos)
          THEN /\ error' = "ValueError"
               /\ pc' = "raised"
               /\ UNCHANGED <<path_len, other_pos, result>>
          ELSE /\ path_len' = other_pos
               /\ other_pos' = other_pos - 1
               /\ UNCHANGED <<pc, error, result>>
     ELSE /\ result' = <<max_path_len, max_vertical_drop>>
          /\ path_len' = None
          /\ other_pos' = None
          /\ pc' = "done"
          /\ UNCHANGED error
  /\ UNCHANGED <<load_vars, map_vars, nodes, summits, ret, bn_vars, gd_vars, paths,
                 max_path_len, max_vertical_drop, path_pos, min_elevation,
                 prev_level_nodes, flp_level>>

\* ------------------------------------------- the program: map.txt to result
\* SkiMap.__init__ followed by the rows SkiMap.load read
Init ==
  /\ width \in 1..MaxW
  /\ height \in 1..MaxH
  /\ rows \in Grids(width, height)
  /\ nodes = <<>>
  /\ summits = {}
  /\ pc = "find_longest_path"
  /\ ret = "none"
  /\ NoFile /\ NoBuildLocals /\ NoGoDownLocals /\ NoQueryLocals /\ NoFlpLocals

Next ==
  \/ FlpStart
  \/ BuildStart \/ BuildRow \/ BuildCell \/ BuildLeft \/ BuildUp \/ BuildNext
  \/ GoDownAppend \/ GoDownWhile \/ GoDownFor \/ GoDownSummits
  \/ FlpPaths \/ FlpFor \/ FlpLevel \/ FlpOther

Spec == Init /\ [][Next]_vars

\* ------------------------------------ the tracker driven edge by edge
\* The tracker on its own: the nodes exist, and a caller submits descent
\* edges one at a time in any order (repetitions included) and queries the
\* summits in between.  Nodes are numbered from the highest down, which any
\* set of nodes can be; they are laid out as one row.
Rows1 == UNION {{row \in [1..n -> 1..MaxElev] : \A k \in 1..(n - 1) : row[k] >= row[k + 1]} :
                n \in 1..MaxNodes}

\* number of edges inserted so far
RECURSIVE SumLen(_, _)
SumLen(ns, n) == IF n = 0 THEN 0 ELSE Len(ns[n - 1].go_down) + SumLen(ns, n - 1)
EdgeCount == SumLen(nodes, width * height)

InitFree ==
  /\ \E row \in Rows1 :
       /\ width = Len(row)
       /\ height = 1
       /\ rows = <<row>>
       /\ nodes = [k \in 0..(Len(row) - 1) |-> Node(k, k, 0, row[k + 1])]
  /\ summits = {}
  /\ pc = "idle"
  /\ ret = "none"
  /\ NoFile /\ NoBuildLocals /\ NoGoDownLocals /\ NoQueryLocals /\ NoFlpLocals

\* a call _go_down(upper, down) with upper higher than down
InsertEdge ==
  /\ pc \in {"idle", "queried"}
  /\ EdgeCount < MaxEdges
  /\ \E u, d \in DOMAIN nodes :
       /\ nodes[u].elevation > nodes[d].elevation
       /\ Call_go_down(u, d, "idle")
  /\ path_len' = None /\ paths' = <<>> /\ error' = "none"
  /\ UNCHANGED <<load_vars, map_vars, nodes, summits, bn_vars, flp_vars>>

\* a call longest_paths(path_len=pl), lines 69-78; its result or exception
\* is kept in paths and error until the next insertion
Query ==
  /\ pc = "idle"
  /\ \E pl \in {None} \cup 0..(width * height - 1) :
       /\ path_len' = pl
       /\ IF LongestPathsRaises(pl)
          THEN error' = "ValueError" /\ paths' = <<>>
          ELSE error' = "none" /\ paths' \in Perms(LongestPaths(pl))
  /\ pc' = "queried"
  /\ UNCHANGED <<load_vars, map_vars, nodes, summits, ret, bn_vars, gd_vars, flp_vars>>

NextFree ==
  \/ InsertEdge
  \/ GoDownAppend \/ GoDownWhile \/ GoDownFor \/ GoDownSummits
  \/ Query

SpecFree == InitFree /\ [][NextFree]_vars

\* The same caller without the queries.  A call of _go_down that has
\* started keeps running: the program is one thread that nothing suspends.
NextInsert ==
  \/ InsertEdge
  \/ GoDownAppend \/ GoDownWhile \/ GoDownFor \/ GoDownSummits

SpecTerm ==
  /\ InitFree /\ [][NextInsert]_vars
  /\ WF_vars(GoDownAppend) /\ WF_vars(GoDownWhile)
  /\ WF_vars(GoDownFor) /\ WF_vars(GoDownSummits)

\* ------------------------- the edges of a grid submitted in any order
\* the cells orthogonally adjacent to cell a
Adjacent(a) ==
  {b \in 0..(width * height - 1) :
     \/ (b \div width = a \div width /\ (b - a = 1 \/ a - b = 1))
     \/ (b % width = a % width /\ (b - a = width \/ a - b = width))}

\* elevation of cell a in the grid
Elev(a) == rows[(a \div width) + 1][(a % width) + 1]

\* the descent edges of the grid: adjacent cells, higher to lower
GridEdges ==
  {e \in (0..(width * height - 1)) \X (0..(width * height - 1)) :
     e[2] \in Adjacent(e[1]) /\ Elev(e[1]) > Elev(e[2])}

\* the edges of the grid not yet submitted
Pending == {e \in GridEdges : e[2] \notin Range(nodes[e[1]].go_down)}

InitOrder ==
  /\ width \in 1..MaxOrderCells
  /\ height \in 1..MaxOrderCells
  /\ width * height <= MaxOrderCells
  /\ rows \in Grids(width, height)
  /\ nodes = [k \in 0..(width * height - 1) |->
                Node(k, k % width, k \div width, rows[(k \div width) + 1][(k % width) + 1])]
  /\ summits = {}
  /\ pc = "idle"
  /\ ret = "none"
  /\ NoFile /\ NoBuildLocals /\ NoGoDownLocals /\ NoQueryLocals /\ NoFlpLocals

\* a call _go_down(upper, down) for an edge of the grid not yet submitted
InsertGridEdge ==
  /\ pc = "idle"
  /\ \E e \in Pending : Call_go_down(e[1], e[2], "idle")
  /\ UNCHANGED <<load_vars, map_vars, nodes, summits, bn_vars, lp_vars, flp_vars>>

\* once every edge is in, the rest of find_longest_path (lines 134-168) runs
AllSubmitted ==
  /\ pc = "idle"
  /\ Pending = {}
  /\ pc' = "flp_paths"
  /\ UNCHANGED <<load_vars, map_vars, nodes, summits, ret, bn_vars, gd_vars, lp_vars, flp_vars>>

NextOrder ==
  \/ InsertGridEdge
  \/ GoDownAppend \/ GoDownWhile \/ GoDownFor \/ GoDownSummits
  \/ AllSubmitted
  \/ FlpPaths \/ FlpFor \/ FlpLevel \/ FlpOther

SpecOrder == InitOrder /\ [][NextOrder]_vars

\* ------------------------------------------- SkiMap.load, then the program
\* A line of the file is kept as the list of integers that
\* re.findall('\d+', row) extracts from it (line 119); header is the pair
\* of integers the header line holds (lines 111-114).
FileLines(w) == UNION {[1..n -> 1..MaxFileElev] : n \in 0..(w + 1)}
Files(w, h) == UNION {[1..n -> FileLines(w)] : n \in 0..h}

\* lines 118-119: f.readline() past the end of the file returns '', in
\* which findall finds no integer
ReadRow(k) == IF k <= Len(file) THEN file[k] ELSE <<>>

\* line 120 with >= in the assertion
RowAcceptedAtLeast(row, w) == Len(row) >= w

\* line 120: assert len(result.rows[r]) == width
RowAccepted(row, w) == Len(row) = w

\* before SkiMap.load('map.txt') on line 172: no SkiMap exists yet
InitLoad ==
  /\ \E w \in 1..MaxFileW, h \in 1..MaxFileH :
       /\ header = <<w, h>>
       /\ file \in Files(w, h)
  /\ r = None
  /\ width = None /\ height = None /\ rows = <<>>
  /\ nodes = <<>>
  /\ summits = {}
  /\ pc = "load"
  /\ ret = "none"
  /\ NoBuildLocals /\ NoGoDownLocals /\ NoQueryLocals /\ NoFlpLocals

\* lines 110-116: read the header, construct the SkiMap (lines 21-31) and
\* allocate its rows; a row that is still None is kept as the empty list
LoadStart ==
  /\ pc = "load"
  /\ width' = header[1]
  /\ height' = header[2]
  /\ rows' = Repeat(<<>>, header[2])
  /\ nodes' = <<>>
  /\ summits' = {}
  /\ r' = 0
  /\ pc' = "load_row"
  /\ UNCHANGED <<header, file, ret, bn_vars, gd_vars, lp_vars, flp_vars>>

\* lines 117-121: one iteration of the loop over the rows; after the last
\* row load returns and line 174 calls find_longest_path
LoadRow ==
  /\ pc = "load_row"
  /\ IF r < height
     THEN LET row == ReadRow(r + 1)
          IN /\ rows' = [rows EXCEPT ![r + 1] = row]
             /\ IF RowAccepted(row, width)
                THEN /\ r' = r + 1
                     /\ UNCHANGED <<pc, error>>
                ELSE /\ error' = "AssertionError"
                     /\ pc' = "raised"
                     /\ UNCHANGED r
     ELSE /\ r' = None
          /\ pc' = "find_longest_path"
          /\ UNCHANGED <<rows, error>>
  /\ UNCHANGED <<header, file, width, height, nodes, summits, ret, bn_vars, gd_vars,
                 path_len, paths, flp_vars>>

NextLoad ==
  \/ LoadStart \/ LoadRow
  \/ FlpStart
  \/ BuildStart \/ BuildRow \/ BuildCell \/ BuildLeft \/ BuildUp \/ BuildNext
  \/ GoDownAppend \/ GoDownWhile \/ GoDownFor \/ GoDownSummits
  \/ FlpPaths \/ FlpFor \/ FlpLevel \/ FlpOther

SpecLoad == InitLoad /\ [][NextLoad]_vars

\* ======================================================== the properties
\* builtin max over a non-empty set of integers
SetMax(S) == CHOOSE m \in S : \A n \in S : m >= n

\* number of occurrences of v in the list s
RECURSIVE Count(_, _)
Count(s, v) ==
  IF s = <<>> THEN 0 ELSE (IF Head(s) = v THEN 1 ELSE 0) + Count(Tail(s), v)

\* no call of _go_down is in progress
Settled == pc \in {"idle", "queried"}

\* The descending paths of the grid itself, independent of the graph the
\* program builds: every <<number of steps, elevation of the last cell>> of
\* a path that starts at cell a and steps to adjacent, strictly lower cells.
RECURSIVE GridPaths(_)
GridPaths(a) ==
  {<<0, Elev(a)>>} \cup
  UNION {{<<p[1] + 1, p[2]>> : p \in GridPaths(b)} :
           b \in {c \in Adjacent(a) : Elev(c) < Elev(a)}}

Cells == 0..(width * height - 1)
GridLongestFrom(a) == SetMax({p[1] : p \in GridPaths(a)})
GridLongest == SetMax({GridLongestFrom(a) : a \in Cells})
GridDrop ==
  SetMax(UNION {{Elev(a) - p[2] : p \in {q \in GridPaths(a) : q[1] = GridLongest}} :
                  a \in Cells})
GridSummits ==
  {a \in Cells : /\ \E b \in Adjacent(a) : Elev(b) < Elev(a)
                 /\ \A b \in Adjacent(a) : Elev(b) <= Elev(a)}

\* C1 (SpecFree): whenever no insertion is in progress, every node's
\* longest_path is 0 if its go_down is empty and otherwise 1 + the largest
\* longest_path among the nodes in its go_down.
C1_LongestPathInvariant ==
  Settled =>
    \A n \in DOMAIN nodes :
      nodes[n].longest_path =
        IF nodes[n].go_down = <<>> THEN 0
        ELSE 1 + SetMax({nodes[c].longest_path : c \in Range(nodes[n].go_down)})

\* a settled graph in which an insertion had to raise an ancestor two levels
\* up: a node of longest_path 3 whose go_down also holds a sink
C1_Witness ==
  /\ pc = "idle"
  /\ \E n \in DOMAIN nodes :
       /\ nodes[n].longest_path = 3
       /\ \E c \in Range(nodes[n].go_down) : nodes[c].longest_path = 0

\* C2 (SpecFree): whenever no insertion is in progress, the summit set is
\* exactly the set of nodes with empty go_up and non-empty go_down.
C2_SummitSetExact ==
  Settled =>
    summits = {n \in DOMAIN nodes : nodes[n].go_up = <<>> /\ nodes[n].go_down # <<>>}

\* a settled graph with a summit and with a node that has outgoing edges
\* but, having an incoming edge, is no summit
C2_Witness ==
  /\ pc = "idle"
  /\ summits # {}
  /\ \E n \in DOMAIN nodes :
       nodes[n].go_down # <<>> /\ nodes[n].go_up # <<>> /\ n \notin summits

\* C3 (Spec): on a grid with two adjacent cells of different elevation,
\* find_longest_path does not raise and its first result is the largest
\* number of steps of a descending path of the grid.
C3_LongestPathLength ==
  /\ pc = "raised" => GridEdges = {}
  /\ pc = "done" => (GridEdges # {} => result[1] = GridLongest)

\* a finished run whose longest path has three steps, on a grid that also
\* has a summit with a shorter longest path
C3_Witness ==
  /\ pc = "done"
  /\ result[1] = 3
  /\ \E s \in summits : nodes[s].longest_path < 3

\* C4 (Spec): on a grid with a descent edge, the second result of
\* find_longest_path is the largest drop (first elevation minus last
\* elevation) among the descending paths with the maximal number of steps.
C4_MaxVerticalDrop ==
  (pc = "done" /\ GridEdges # {}) => result[2] = GridDrop

\* a finished run with two maximal summits whose drops differ: the reported
\* drop is larger than the drop of one of them
C4_Witness ==
  /\ pc = "done"
  /\ Len(paths) >= 2
  /\ \E a \in Range(paths) :
       \A p \in GridPaths(a) : p[1] = result[1] => Elev(a) - p[2] < result[2]

\* C5 (Spec): on a grid whose cells all have the same elevation,
\* find_longest_path does not raise and returns (0, 0).
C5_FlatGridReportsZero ==
  (pc \in {"raised", "done"} /\ \A a, b \in Cells : Elev(a) = Elev(b)) =>
    (pc = "done" /\ result = <<0, 0>>)

\* C6 (SpecFree): a query made while the summit set is empty returns the
\* empty list and raises nothing, with and without path_len.
C6_EmptySummitsQueryReturnsEmpty ==
  (pc = "queried" /\ summits = {}) => (error = "none" /\ paths = <<>>)

\* C7 (SpecFree): a query made while the summit set is not empty raises
\* nothing and returns, each once, exactly the summits whose longest_path
\* is path_len, or the largest longest_path of a summit if path_len is None.
C7_QueryReturnsMatchingSummits ==
  (pc = "queried" /\ summits # {}) =>
    LET wanted == IF path_len = None
                  THEN SetMax({nodes[s].longest_path : s \in summits})
                  ELSE path_len
        matching == {s \in summits : nodes[s].longest_path = wanted}
    IN /\ error = "none"
       /\ Range(paths) = matching
       /\ Len(paths) = Cardinality(matching)

\* the nodes reachable from n along go_down
RECURSIVE Below(_)
Below(n) == {n} \cup UNION {Below(c) : c \in Range(nodes[n].go_down)}

\* two regions without a common node, one with a summit of longest_path 2
\* and one with a summit of longest_path 1: longest_paths() returned the
\* former alone
C7_Witness ==
  /\ pc = "queried"
  /\ path_len = None
  /\ \E s, t \in summits :
       /\ nodes[s].longest_path = 2
       /\ nodes[t].longest_path = 1
       /\ Below(s) \cap Below(t) = {}
       /\ paths = <<s>>

\* C8 (Spec): no step of the build, the steps inside the propagation of one
\* insertion included, lowers the longest_path of a node.
C8_LongestPathNeverDecreases ==
  [][\A n \in DOMAIN nodes :
       n \in DOMAIN nodes' => nodes'[n].longest_path >= nodes[n].longest_path]_vars

\* inside a propagation, the ancestor just visited kept a value larger than
\* the one proposed to it
C8_Witness ==
  /\ pc = "gd_for"
  /\ node_pos > 1
  /\ nodes[top_nodes[node_pos - 1]].longest_path > new_longest_path + level

\* C9 (Spec): when build_nodes returns there is one node per cell, numbered
\* row-major; two adjacent cells of different elevation are joined by
\* exactly one edge, from the higher to the lower, entered once in go_down
\* and once in go_up; there is no other edge; and every call of _go_down is
\* made on two nodes that exist.
C9_BuildNodesEdges ==
  /\ pc = "go_down" =>
       /\ upper_node \in DOMAIN nodes /\ nodes[upper_node] # NoNode
       /\ down_node \in DOMAIN nodes /\ nodes[down_node] # NoNode
  /\ pc = "flp_paths" =>
       /\ DOMAIN nodes = Cells
       /\ \A a \in Cells :
            /\ nodes[a].i = a
            /\ nodes[a].x = a % width /\ nodes[a].y = a \div width
            /\ nodes[a].elevation = Elev(a)
            /\ \A b \in Cells :
                 LET edge == b \in Adjacent(a) /\ Elev(a) > Elev(b)
                 IN /\ Count(nodes[a].go_down, b) = (IF edge THEN 1 ELSE 0)
                    /\ Count(nodes[b].go_up, a) = (IF edge THEN 1 ELSE 0)

\* a 3 x 2 grid built to the end with a horizontal edge, a vertical edge and
\* a pair of equal neighbours
C9_Witness ==
  /\ pc = "flp_paths"
  /\ width = 3 /\ height = 2
  /\ \E a, b \in Cells : b \in Adjacent(a) /\ Elev(a) = Elev(b)
  /\ \E a \in Cells : a + 1 \in Range(nodes[a].go_down)
  /\ \E a \in Cells : a - width \in Range(nodes[a].go_down)

\* C10 (SpecOrder): in whatever order the descent edges of a grid are
\* submitted, once all are in every node's longest_path and the summit set
\* are those the grid alone determines, and so are the two results.
C10_OrderIndependent ==
  /\ (pc = "idle" /\ Pending = {}) =>
       /\ \A a \in Cells : nodes[a].longest_path = GridLongestFrom(a)
       /\ summits = GridSummits
  /\ pc = "done" => result = <<GridLongest, GridDrop>>
  /\ pc = "raised" => GridEdges = {}

\* a finished run in which the edges of cell 0 were submitted in the
\* opposite of the row-major order
C10_Witness ==
  /\ pc = "done"
  /\ width = 2 /\ height = 2
  /\ nodes[0].go_down = <<2, 1>>
  /\ result[1] >= 2

\* the file has a row, missing rows included, whose number of integers is
\* not the width its header declares
Malformed ==
  \E k \in 1..header[2] : Len(ReadRow(k)) # header[1]

\* C11 (SpecLoad): when a row of the file does not hold exactly width
\* integers, the program never gets past load: it stops there with an
\* AssertionError, and no node and no summit has been created.
C11_MalformedGridFailsEarly ==
  Malformed =>
    /\ pc \in {"load", "load_row", "raised"}
    /\ pc = "load_row" => r < height
    /\ pc = "raised" => error = "AssertionError"
    /\ nodes = <<>>
    /\ summits = {}

\* load has failed on a missing second row after a first row of the right
\* length
C11_Witness ==
  /\ pc = "raised"
  /\ error = "AssertionError"
  /\ header[2] = 2
  /\ Len(file) = 1
  /\ r = 1

\* C12 (SpecTerm): every call of _go_down returns: from its first line the
\* program gets back to the caller, the propagation loop having run out of
\* ancestors.
C12_InsertEdgeTerminates == (pc = "go_down") ~> (pc = "idle")

\* a level of the propagation has been walked whose list of ancestors holds
\* the same node twice
C12_Witness ==
  /\ pc = "gd_for"
  /\ node_pos = Len(top_nodes) + 1
  /\ \E a, b \in 1..Len(top_nodes) : a # b /\ top_nodes[a] = top_nodes[b]

\* the cells reached from cell a by exactly k steps to adjacent, strictly
\* lower cells
RECURSIVE GridReach(_, _)
GridReach(a, k) ==
  IF k = 0 THEN {a}
  ELSE UNION {{c \in Adjacent(b) : Elev(c) < Elev(b)} : b \in GridReach(a, k - 1)}

\* C13 (Spec): in the walk down from a summit S of the longest paths, the
\* frontier of every level k in 1..L is not empty; each of its nodes has
\* longest_path L - k and is the k-th cell of a descending path of L steps
\* from S; the frontier of level L holds sinks only, and the minimum
\* elevation seen is the elevation of one of them.
C13_WalkFrontier ==
  (pc = "flp_level" /\ flp_level >= 2) =>
    LET S == paths[path_pos]
        L == max_path_len
        k == flp_level - 1
    IN /\ k <= L
       /\ nodes[S].longest_path = L
       /\ prev_level_nodes # {}
       /\ \A n \in prev_level_nodes :
            /\ nodes[n].longest_path = L - k
            /\ n \in GridReach(S, k)
            /\ \E p \in GridPaths(n) : p[1] = L - k
       /\ k = L =>
            /\ \A n \in prev_level_nodes : nodes[n].go_down = <<>>
            /\ \E n \in prev_level_nodes : nodes[n].elevation = min_elevation

\* a frontier of two nodes below which the next level has a node that is
\* on no longest path
C13_Witness ==
  /\ pc = "flp_level"
  /\ flp_level >= 2
  /\ flp_level <= max_path_len
  /\ Cardinality(prev_level_nodes) >= 2
  /\ \E c \in LevelNodes(prev_level_nodes) :
       nodes[c].longest_path # max_path_len - flp_level

\* the call of _go_down in progress submits an edge that was already there
DuplicateCall ==
  \/ pc = "go_down" /\ down_node \in Range(nodes[upper_node].go_down)
  \/ /\ pc \in {"gd_while", "gd_for", "gd_summits"}
     /\ Count(nodes[upper_node].go_down, down_node) >= 2

\* C14 (SpecFree): a call of _go_down for an edge that is already present
\* changes nothing but the two lists: in none of its steps does a
\* longest_path or the summit set change, and its first step appends
\* down_node to upper_node.go_down and upper_node to down_node.go_up.
C14_DuplicateEdgeTolerated ==
  [][DuplicateCall =>
       /\ summits' = summits
       /\ nodes' = IF pc = "go_down"
                   THEN [nodes EXCEPT ![upper_node].go_down = Append(@, down_node),
                                      ![down_node].go_up = Append(@, upper_node)]
                   ELSE nodes]_vars

\* a repeated edge from a summit with a longest path of two steps has been
\* inserted and the call has returned
C14_Witness ==
  /\ pc = "idle"
  /\ \E u \in summits, d \in DOMAIN nodes :
       /\ Count(nodes[u].go_down, d) >= 2
       /\ nodes[u].longest_path >= 2

\* C15 (SpecFree): when a call _go_down(upper, down) returns, down is not
\* a summit, and upper is a summit exactly if it has no incoming edge.  A
\* node leaves the summit set only with an incoming edge, and a node with
\* an incoming edge that is not in the set never enters it: a node once
\* removed is never added again.
C15_SummitMembership ==
  [][/\ pc = "gd_summits" =>
          /\ down_node \notin summits'
          /\ upper_node \in summits' <=> nodes'[upper_node].go_up = <<>>
     /\ \A n \in DOMAIN nodes :
          /\ (n \in summits /\ n \notin summits') => nodes'[n].go_up # <<>>
          /\ (n \notin summits /\ nodes[n].go_up # <<>>) => n \notin summits']_vars

\* the last step of a call whose down_node is a summit: it is about to be
\* removed
C15_Witness ==
  /\ pc = "gd_summits"
  /\ down_node \in summits
  /\ upper_node \notin summits

\* upper and the nodes from which upper is reached along go_down
RECURSIVE Above(_)
Above(n) == {n} \cup UNION {Above(a) : a \in Range(nodes[n].go_up)}

\* a call of _go_down is in progress
InCall == pc \in {"go_down", "gd_while", "gd_for", "gd_summits"}

\* C16 (SpecFree): a step of a call _go_down(upper, down) changes the
\* longest_path of upper and of nodes above upper only, never that of
\* down; and when down.longest_path + 1 <= upper.longest_path at the call,
\* the call goes straight to the summit bookkeeping, where no longest_path
\* changes either.
C16_OnlyAncestorsChange ==
  [][InCall =>
       LET same == \A n \in DOMAIN nodes : nodes'[n].longest_path = nodes[n].longest_path
           short == nodes[down_node].longest_path + 1 <= nodes[upper_node].longest_path
       IN /\ \A n \in DOMAIN nodes :
               nodes'[n].longest_path # nodes[n].longest_path => n \in Above(upper_node)
          /\ nodes'[down_node].longest_path = nodes[down_node].longest_path
          /\ (pc = "go_down" /\ short) => (pc' = "gd_summits" /\ same)
          /\ pc = "gd_summits" => same]_vars

\* the propagation has raised a node two levels above upper while a node
\* that is not above upper, and is not down, has a longest path of its own
C16_Witness ==
  /\ pc = "gd_for"
  /\ level = 2
  /\ node_pos > 1
  /\ \E n \in DOMAIN nodes :
       n \notin Above(upper_node) /\ n # down_node /\ nodes[n].longest_path >= 1

\* C17 (SpecFree): whenever no insertion is in progress and the graph has
\* an edge, the summit set is not empty and the largest longest_path of a
\* summit is the largest longest_path of any node.
C17_SummitsHoldTheMaximum ==
  (Settled /\ EdgeCount >= 1) =>
    /\ summits # {}
    /\ SetMax({nodes[s].longest_path : s \in summits}) =
       SetMax({nodes[n].longest_path : n \in DOMAIN nodes})

\* a settled graph with two summits of different longest_path and a node
\* that is no summit but has a longest path of two steps
C17_Witness ==
  /\ pc = "idle"
  /\ \E s, t \in summits : nodes[s].longest_path < nodes[t].longest_path
  /\ \E n \in DOMAIN nodes : n \notin summits /\ nodes[n].longest_path >= 2

====
